---- MODULE Spec2Model ----
(***************************************************************************)
(* Job-dispatch and batch-inference pipeline of nlp-trading-platform:      *)
(* the JobState table, the enqueue Lambda that creates jobs, and the       *)
(* FinBERT worker that polls the table and processes PENDING jobs.         *)
(***************************************************************************)
EXTENDS Integers, Sequences, FiniteSets, TLC

\* ------------------------------------------------------------------------
\* Bounds of the model
\* ------------------------------------------------------------------------
MaxJobs == 3        \* most items the JobState table holds
MaxLines == 3       \* most lines of a raw object
MaxBatch == 2       \* largest BATCH_SIZE a worker is configured with

\* ------------------------------------------------------------------------
\* Program constants
\* ------------------------------------------------------------------------
MsgLimit == 500         \* msg[:500] in update_status
NoValidLen == 29        \* len("No valid JSONL records found.")
FetchPrefixLen == 34    \* len("NoSuchKey or S3 error for s3://" "/" ": ")
ScanPageLimit == 2      \* items one ddb.scan call examines (its 1 MB page)

PENDING == "PENDING_SENTIMENT"
DONE == "DONE"
FAILED == "FAILED"

Workers == {1, 2}
BUCKET == "nlp-trading-platform"

\* ------------------------------------------------------------------------
\* S3 keys: a key is the sequence of its "/"-separated segments, a segment
\* the sequence of its pieces (stem and dot-suffixes).
\* ------------------------------------------------------------------------
RAW_PREFIX == << <<"raw">>, <<"text">> >>
CURATED_PREFIX == << <<"curated">>, <<"sentiment">> >>

DatedKey == RAW_PREFIX \o << <<"2025">>, <<"11">>, <<"10">>, <<"foo", ".jsonl", ".gz">> >>
FlatKey == RAW_PREFIX \o << <<"foo", ".jsonl", ".gz">> >>
BareGzKey == RAW_PREFIX \o << <<"foo", ".gz">> >>
PlainKey == RAW_PREFIX \o << <<"foo", ".jsonl">> >>
OtherKey == << <<"tmp">>, <<"foo", ".jsonl", ".gz">> >>
Dated09Key == RAW_PREFIX \o << <<"2025">>, <<"11">>, <<"09">>, <<"foo", ".jsonl", ".gz">> >>
XKey == RAW_PREFIX \o << <<"2025">>, <<"11">>, <<"11">>, <<"x", "foo", ".jsonl", ".gz">> >>

\* keys of the S3 ObjectCreated events delivered to the enqueue Lambda
EventKeys == {DatedKey, FlatKey, BareGzKey, PlainKey, OtherKey}

Last(s) == s[Len(s)]
EndsWith(seg, suffix) == Len(seg) >= 1 /\ Last(seg) = suffix
StartsWithRawText(key) == Len(key) >= 3 /\ SubSeq(key, 1, 2) = RAW_PREFIX

\* handler: "only accept .jsonl.gz files under raw/text/"
Accepts(key) == EndsWith(Last(key), ".gz") /\ StartsWithRawText(key)

\* timestamp = datetime.utcnow(), to the second
Timestamps == {"20251110000000"}
\* pk_value = f"JOB#sentiment#{timestamp:%Y%m%d%H%M%S}"
PkOf(ts) == <<"JOB#sentiment#", ts>>
JobIds == {<<PkOf(ts), sk>> : ts \in Timestamps, sk \in {k \in EventKeys : Accepts(k)}}

\* ascending string order of the keys of the model (sorted(), scan order)
KeyOrder == <<Dated09Key, DatedKey, XKey, BareGzKey, PlainKey, FlatKey, OtherKey>>
KeyRank(key) == CHOOSE n \in 1..Len(KeyOrder) : KeyOrder[n] = key

\* ------------------------------------------------------------------------
\* Messages: a string is modelled by what it says and how long it is.
\* ------------------------------------------------------------------------
NoMsg == [kind |-> "None", len |-> 0]
Str(kind, len) == [kind |-> kind, len |-> len]
Min(a, b) == IF a < b THEN a ELSE b
\* msg[:500]
Truncate(msg) == [kind |-> msg.kind, len |-> Min(msg.len, MsgLimit)]
\* "if msg:" is false for None and for the empty string
Truthy(msg) == msg.kind # "None" /\ msg.len > 0

\* lengths of the descriptions str(e) of the exceptions the steps raise
ErrLens == {0, 40, 600}
\* str() of a botocore error always names the operation or the endpoint
BotoLens == {40}
\* lengths of bucket + key + e.response["Error"]["Message"]
S3MsgLens == {20, 600}
GzipErrLen == 26        \* len("Not a gzipped file (b'ab')")
AttrErrLen == 35        \* len("'int' object has no attribute 'get'")

\* ------------------------------------------------------------------------
\* Raw objects: whether the bytes are a gzip stream, and the lines of the
\* (decompressed) text.  A line is blank, not JSON ("bad"), a JSON value
\* that is not an object ("scalar"), or a JSON object ("obj"); a field an
\* object lacks is "absent".
\* ------------------------------------------------------------------------
Line(t, symbol, headline, text) ==
    [t |-> t, symbol |-> symbol, headline |-> headline, text |-> text]
BlankLine == Line("blank", "absent", "absent", "absent")
BadLine == Line("bad", "absent", "absent", "absent")
ScalarLine == Line("scalar", "absent", "absent", "absent")
ObjA == Line("obj", "AAPL", "up", "other")
ObjB == Line("obj", "absent", "", "down")
ObjC == Line("obj", "MSFT", "absent", "absent")
Lines == {BlankLine, BadLine, ScalarLine, ObjA, ObjB}

SeqsUpTo(S, n) == UNION {[1..k -> S] : k \in 0..n}
Raw(key, gz, lines) == [key |-> key, gz |-> gz, lines |-> lines]
NoRaw == Raw(<<>>, FALSE, <<>>)

\* contents the object store holds in the pipeline specification
AllContents == {[gz |-> TRUE, lines |-> l] : l \in SeqsUpTo(Lines, MaxLines)}
                   \cup {[gz |-> FALSE, lines |-> <<BadLine>>]}
\* contents the object store holds in the dispatcher specifications
CoreContents == {[gz |-> TRUE, lines |-> <<ObjC, ObjB>>],
                 [gz |-> TRUE, lines |-> <<BadLine>>],
                 [gz |-> FALSE, lines |-> <<BadLine>>]}

ContentsOf(which) == IF which = "all" THEN AllContents ELSE CoreContents

\* read_jsonl_bytes; GzipFails is the case in which gzip raises
ParsedLines(lines) == SelectSeq(lines, LAMBDA l : l.t \in {"obj", "scalar"})
GzipFails(data, key) == EndsWith(Last(key), ".gz") /\ ~data.gz
read_jsonl_bytes(data, key) ==
    IF EndsWith(Last(key), ".gz")
    THEN ParsedLines(data.lines)
    ELSE IF data.gz THEN <<>> ELSE ParsedLines(data.lines)

\* r.get(f, "")
Get(v) == IF v = "absent" THEN "" ELSE v
\* r.get("headline", "") or r.get("text", "")
HeadlineOf(r) == IF Get(r.headline) # "" THEN Get(r.headline) ELSE Get(r.text)
\* r.get("symbol")
SymbolOf(r) == IF r.symbol = "absent" THEN "None" ELSE r.symbol
headlines(recs) == [k \in 1..Len(recs) |-> HeadlineOf(recs[k])]
symbols(recs) == [k \in 1..Len(recs) |-> SymbolOf(recs[k])]
\* r.get raises AttributeError when a parsed line is not an object
HasScalar(recs) == \E k \in 1..Len(recs) : recs[k].t = "scalar"

\* run_finbert_batch: one label per text, in order
LABELS == <<"positive", "negative", "neutral">>
Score(text) == IF text = "up" THEN LABELS[1]
               ELSE IF text = "down" THEN LABELS[2] ELSE LABELS[3]
run_finbert_batch(texts) == [k \in 1..Len(texts) |-> Score(texts[k])]

\* a batch loop that indexes symbols and headlines by the position in the batch
EnrichBatch_LocalIndex(recs, i0, size) ==
    LET hs == [k \in 1..Len(recs) |->
                  IF Get(recs[k].headline) # "" THEN Get(recs[k].headline)
                  ELSE Get(recs[k].text)]
        lo == i0 + 1
        hi == IF i0 + size < Len(hs) THEN i0 + size ELSE Len(hs)
    IN [j \in 1..(hi - lo + 1) |->
            [symbol |-> IF recs[j].symbol = "absent" THEN "None" ELSE recs[j].symbol,
             headline |-> hs[j],
             sentiment_label |->
                 IF hs[lo + j - 1] = "up" THEN "positive"
                 ELSE IF hs[lo + j - 1] = "down" THEN "negative" ELSE "neutral"]]

\* one iteration of the batch loop of process_job, from offset i0
BatchOf(hs, i0, size) == SubSeq(hs, i0 + 1, Min(i0 + size, Len(hs)))
EnrichBatch(recs, i0, size) ==
    LET hs == headlines(recs)
        labels == run_finbert_batch(BatchOf(hs, i0, size))
    IN [j \in 1..Len(labels) |->
            [symbol |-> symbols(recs)[i0 + j],
             headline |-> hs[i0 + j],
             sentiment_label |-> labels[j]]]

\* a key derivation that drops the date folders
CuratedKey_Flat(raw_key) ==
    LET base0 == Last(raw_key)
        base1 == IF EndsWith(base0, ".gz")
                 THEN SubSeq(base0, 1, Len(base0) - 1) ELSE base0
        base == IF EndsWith(base1, ".jsonl") THEN base1
                ELSE Append(base1, ".jsonl")
    IN CURATED_PREFIX \o <<base>>

\* write_curated: the key the curated object is put at
CuratedKey(raw_key) ==
    LET parts == raw_key
        date_parts == IF Len(parts) >= 6 THEN SubSeq(parts, 3, 5) ELSE <<>>
        base0 == Last(parts)
        base1 == IF EndsWith(base0, ".gz")
                 THEN SubSeq(base0, 1, Len(base0) - 1) ELSE base0
        base == IF EndsWith(base1, ".jsonl") THEN base1
                ELSE Append(base1, ".jsonl")
    IN CURATED_PREFIX \o date_parts \o <<base>>

VARIABLES
    jobs,       \* JobState table: (pk, sk) -> item
    curated,    \* curated/ objects of the bucket: key -> body
    store,      \* which contents the raw objects of the bucket can have
    BATCH_SIZE, \* the workers' configured batch size
    pc,         \* per worker: the statement it is at
    items,      \* per worker: scanned items not yet handed to process_job
    cur,        \* per worker: the item of the running process_job
    raw_bytes,  \* per worker: the fetched raw object
    records,    \* per worker: parsed records
    enriched,   \* per worker: enriched records built so far
    i,          \* per worker: batch offset
    err,        \* per worker: str(e) of the exception being handled
    scanned,    \* per worker: job ids the cycle's scan returned
    handed,     \* per worker: job ids handed to process_job in the cycle
    log,        \* per worker: what happened to each job in the cycle
    owed,       \* per worker: jobs PENDING when its last scan failed
    fetched,    \* per worker: how the smart_get_object call of the job went,
                \* kept until its bytes are parsed
    events      \* keys the ObjectCreated events carry

vars == <<jobs, curated, store, events, BATCH_SIZE, pc, items, cur, raw_bytes,
          records, enriched, i, err, scanned, handed, log, owed, fetched>>

\* ------------------------------------------------------------------------
\* JobState table
\* ------------------------------------------------------------------------
Item(status, bucket, created_ts, error_message) ==
    [status |-> status, bucket |-> bucket, created_ts |-> created_ts,
     error_message |-> error_message]

\* table.put_item(Item=job_item): creates or replaces the whole item
put_item(tbl, id, item) ==
    [x \in DOMAIN tbl \cup {id} |-> IF x = id THEN item ELSE tbl[x]]

\* a status update that writes a whole new item instead of two attributes
update_status_Replace(tbl, id, status, msg) ==
    put_item(tbl, id, Item(status, "absent", "absent",
                           IF Truthy(msg) THEN Truncate(msg) ELSE NoMsg))

\* ddb.update_item with "SET #s = :s" and, for a non-empty msg,
\* ", error_message = :e"; UpdateItem creates the item when it is missing
update_status(tbl, id, status, msg) ==
    LET old == IF id \in DOMAIN tbl THEN tbl[id]
               ELSE Item("absent", "absent", "absent", NoMsg)
        new == [old EXCEPT !.status = status,
                           !.error_message = IF Truthy(msg) THEN Truncate(msg)
                                             ELSE @]
    IN put_item(tbl, id, new)

\* the items of the table in the order a scan reads them
TableSeq(tbl) ==
    LET n == Cardinality(DOMAIN tbl)
    IN CHOOSE s \in [1..n -> DOMAIN tbl] :
          /\ \A a, b \in 1..n : a < b => KeyRank(s[a][2]) < KeyRank(s[b][2])
          /\ \A id \in DOMAIN tbl : \E a \in 1..n : s[a] = id

\* a scan without the FilterExpression
ScanItems_NoFilter(tbl) ==
    SubSeq(TableSeq(tbl), 1, Min(Cardinality(DOMAIN tbl), ScanPageLimit))

\* ddb.scan(FilterExpression status = PENDING_SENTIMENT), resp["Items"]:
\* one call reads one page of the table and filters what it read;
\* LastEvaluatedKey is not followed
ScanItems(tbl) ==
    LET all == TableSeq(tbl)
        page == SubSeq(all, 1, Min(Len(all), ScanPageLimit))
    IN SelectSeq(page, LAMBDA id : tbl[id].status = PENDING)

PendingIds(tbl) == {id \in DOMAIN tbl : tbl[id].status = PENDING}
Range(s) == {s[k] : k \in 1..Len(s)}

\* ------------------------------------------------------------------------
\* Object resolver
\* ------------------------------------------------------------------------
IsSuffix(a, b) == Len(a) <= Len(b) /\ SubSeq(b, Len(b) - Len(a) + 1, Len(b)) = a
\* k.endswith("/" + fname) or k.endswith(fname)
Matches(k, fname) == IsSuffix(fname, Last(k))
\* sorted(matches)[-1]
Greatest(keys) == CHOOSE k \in keys : \A o \in keys : KeyRank(o) <= KeyRank(k)

\* what list_objects_all can return: a page of the keys under raw/text/,
\* or [] when the listing fails
Listings == SUBSET {Dated09Key, DatedKey, XKey}

\* what a smart_get_object call did: the error code of the direct get
\* ("" when it succeeded), whether it listed, and the keys listed
Fetched(code, listed, candidates) ==
    [code |-> code, listed |-> listed, candidates |-> candidates]
NoFetch == Fetched("", FALSE, {})

Outcome(res, key, len, trace) ==
    [res |-> res, key |-> key, len |-> len, trace |-> trace]
\* s3.get_object(Bucket=bucket, Key=key) and the read of its body: it
\* succeeds, fails with a ClientError or fails with another exception; each
\* result carries what the call has done by then
GetOutcomes(key, ok, clientError, exception) ==
    {Outcome("ok", key, 0, ok)}
        \cup {Outcome("ClientError", key, m, clientError) : m \in S3MsgLens}
        \cup {Outcome("Exception", key, n, exception) : n \in BotoLens}

\* the except branch of smart_get_object for code NoSuchKey
Fallback(key, candidates) ==
    LET fname == Last(key)
        matches == {k \in candidates : Matches(k, fname)}
        trace == Fetched("NoSuchKey", TRUE, candidates)
    IN IF matches = {}
       THEN {Outcome("ClientError", key, m, trace) : m \in S3MsgLens}
       ELSE GetOutcomes(Greatest(matches), trace, trace, trace)

\* a resolver that lists after any ClientError of the direct get
smart_get_object_AnyError(key) ==
    {Outcome("ok", key, 0, NoFetch)}
        \cup {Outcome("Exception", key, n, Fetched("Exception", FALSE, {})) :
                 n \in BotoLens}
        \cup UNION {Fallback(key, candidates) : candidates \in Listings}
        \cup UNION {{[o EXCEPT !.trace.code = "AccessDenied"] :
                        o \in Fallback(key, candidates)} :
                    candidates \in Listings}

\* smart_get_object: every way the call can end, with the key it read
smart_get_object(key) ==
    GetOutcomes(key, NoFetch, Fetched("AccessDenied", FALSE, {}),
                Fetched("Exception", FALSE, {}))
        \cup UNION {Fallback(key, candidates) : candidates \in Listings}

\* ------------------------------------------------------------------------
\* Initial states
\* ------------------------------------------------------------------------
NoJob == <<PkOf(""), <<>>>>
Empty == [x \in {} |-> NoMsg]

InitWith(running, which, evs, sizes) ==
    /\ jobs = Empty
    /\ curated = Empty
    /\ store = which
    /\ events = evs
    /\ BATCH_SIZE \in sizes
    /\ pc = [w \in Workers |-> IF w \in running THEN "scan" ELSE "off"]
    /\ items = [w \in Workers |-> <<>>]
    /\ cur = [w \in Workers |-> NoJob]
    /\ raw_bytes = [w \in Workers |-> NoRaw]
    /\ records = [w \in Workers |-> <<>>]
    /\ enriched = [w \in Workers |-> <<>>]
    /\ i = [w \in Workers |-> 0]
    /\ err = [w \in Workers |-> NoMsg]
    /\ scanned = [w \in Workers |-> {}]
    /\ handed = [w \in Workers |-> {}]
    /\ log = [w \in Workers |-> {}]
    /\ owed = [w \in Workers |-> {}]
    /\ fetched = [w \in Workers |-> NoFetch]

\* one Dispatcher, default configuration
Init == InitWith({1}, "core", EventKeys, {1})

\* ------------------------------------------------------------------------
\* Enqueue Lambda
\* ------------------------------------------------------------------------
\* handler, for one record of the event: a key that is not accepted is
\* skipped, an accepted one is put as a PENDING job
Enqueue(ts, key) ==
    /\ key \in events
    /\ Accepts(key)
    /\ <<PkOf(ts), key>> \in DOMAIN jobs \/ Cardinality(DOMAIN jobs) < MaxJobs
    /\ jobs' = put_item(jobs, <<PkOf(ts), key>>, Item(PENDING, BUCKET, ts, NoMsg))
    /\ UNCHANGED <<curated, store, events, BATCH_SIZE, pc, items, cur,
                   raw_bytes, records, enriched, i, err, scanned, handed,
                   log, owed, fetched>>

\* ------------------------------------------------------------------------
\* Worker
\* ------------------------------------------------------------------------
Tagged(w, tags) == [log EXCEPT ![w] = @ \cup {<<cur[w], t>> : t \in tags}]

\* process_job returns, or its exception has been handled: back to the for
Return(w) ==
    /\ pc' = [pc EXCEPT ![w] = "next"]
    /\ cur' = [cur EXCEPT ![w] = NoJob]
    /\ raw_bytes' = [raw_bytes EXCEPT ![w] = NoRaw]
    /\ records' = [records EXCEPT ![w] = <<>>]
    /\ enriched' = [enriched EXCEPT ![w] = <<>>]
    /\ i' = [i EXCEPT ![w] = 0]
    /\ err' = [err EXCEPT ![w] = NoMsg]
    /\ fetched' = [fetched EXCEPT ![w] = NoFetch]

\* an exception leaves process_job: the except of poll_once's for loop
Raise(w, e) ==
    /\ pc' = [pc EXCEPT ![w] = "catch"]
    /\ err' = [err EXCEPT ![w] = e]

\* a cycle that takes up again the jobs its previous scan returned
ScanOk_Retry(w) ==
    /\ pc[w] = "scan"
    /\ items' = [items EXCEPT ![w] =
                    SelectSeq(TableSeq(jobs),
                              LAMBDA id : id \in scanned[w] \cup Range(ScanItems(jobs)))]
    /\ scanned' = [scanned EXCEPT ![w] = @ \cup Range(ScanItems(jobs))]
    /\ handed' = [handed EXCEPT ![w] = {}]
    /\ log' = [log EXCEPT ![w] = {}]
    /\ owed' = [owed EXCEPT ![w] = {}]
    /\ pc' = [pc EXCEPT ![w] = "next"]
    /\ UNCHANGED <<jobs, curated, store, events, BATCH_SIZE, cur,
                   raw_bytes, records, enriched, i, err, fetched>>

\* poll_once: ddb.scan succeeds
ScanOk(w) ==
    /\ pc[w] = "scan"
    /\ items' = [items EXCEPT ![w] = ScanItems(jobs)]
    /\ scanned' = [scanned EXCEPT ![w] = Range(ScanItems(jobs))]
    /\ handed' = [handed EXCEPT ![w] = {}]
    /\ log' = [log EXCEPT ![w] = {}]
    /\ owed' = [owed EXCEPT ![w] = {}]
    /\ pc' = [pc EXCEPT ![w] = "next"]
    /\ UNCHANGED <<jobs, curated, store, events, BATCH_SIZE, cur,
                   raw_bytes, records, enriched, i, err, fetched>>

\* a poll_once without the outer try: the scan's exception ends main
ScanFail_Crash(w) ==
    /\ pc[w] = "scan"
    /\ scanned' = [scanned EXCEPT ![w] = {}]
    /\ handed' = [handed EXCEPT ![w] = {}]
    /\ log' = [log EXCEPT ![w] = {}]
    /\ owed' = [owed EXCEPT ![w] = PendingIds(jobs)]
    /\ pc' = [pc EXCEPT ![w] = "crashed"]
    /\ UNCHANGED <<jobs, curated, store, events, BATCH_SIZE, items, cur,
                   raw_bytes, records, enriched, i, err, fetched>>

\* poll_once: ddb.scan raises, the outer except logs it
ScanFail(w) ==
    /\ pc[w] = "scan"
    /\ scanned' = [scanned EXCEPT ![w] = {}]
    /\ handed' = [handed EXCEPT ![w] = {}]
    /\ log' = [log EXCEPT ![w] = {}]
    /\ owed' = [owed EXCEPT ![w] = PendingIds(jobs)]
    /\ pc' = [pc EXCEPT ![w] = "sleep"]
    /\ UNCHANGED <<jobs, curated, store, events, BATCH_SIZE, items, cur,
                   raw_bytes, records, enriched, i, err, fetched>>

\* a loop that claims the job before processing it: the job is marked as
\* taken, and a job that is no longer PENDING is skipped
NextJob_Claim(w) ==
    /\ pc[w] = "next"
    /\ IF items[w] = <<>>
       THEN /\ pc' = [pc EXCEPT ![w] = "sleep"]
            /\ UNCHANGED <<jobs, items, cur, handed>>
       ELSE /\ items' = [items EXCEPT ![w] = Tail(items[w])]
            /\ handed' = [handed EXCEPT ![w] = @ \cup {Head(items[w])}]
            /\ IF Head(items[w]) \in PendingIds(jobs)
               THEN /\ jobs' = [jobs EXCEPT ![Head(items[w])].status = "IN_PROGRESS"]
                    /\ cur' = [cur EXCEPT ![w] = Head(items[w])]
                    /\ pc' = [pc EXCEPT ![w] = "fetch"]
               ELSE UNCHANGED <<jobs, cur, pc>>
    /\ UNCHANGED <<curated, store, events, BATCH_SIZE, raw_bytes,
                   records, enriched, i, err, scanned, log, owed, fetched>>

\* for it in items: process_job(it), up to the fetch
NextJob(w) ==
    /\ pc[w] = "next"
    /\ IF items[w] = <<>>
       THEN /\ pc' = [pc EXCEPT ![w] = "sleep"]
            /\ UNCHANGED <<items, cur, handed>>
       ELSE /\ pc' = [pc EXCEPT ![w] = "fetch"]
            /\ cur' = [cur EXCEPT ![w] = Head(items[w])]
            /\ items' = [items EXCEPT ![w] = Tail(items[w])]
            /\ handed' = [handed EXCEPT ![w] = @ \cup {Head(items[w])}]
    /\ UNCHANGED <<jobs, curated, store, events, BATCH_SIZE, raw_bytes,
                   records, enriched, i, err, scanned, log, owed, fetched>>

\* what the cycle's log keeps of a smart_get_object call: that the key
\* was not found and the listing had no match for it
FetchTags(key, o) ==
    IF o.trace.listed
         /\ {k \in o.trace.candidates : Matches(k, Last(key))} = {}
    THEN {"notFound"} ELSE {}

\* process_job: raw_bytes = smart_get_object(bucket, sk)
Fetch(w) ==
    /\ pc[w] = "fetch"
    /\ \E o \in smart_get_object(cur[w][2]) :
        /\ fetched' = [fetched EXCEPT ![w] = o.trace]
        /\ log' = Tagged(w, FetchTags(cur[w][2], o))
        /\ CASE o.res = "ok" ->
                   /\ \E c \in ContentsOf(store) :
                          raw_bytes' = [raw_bytes EXCEPT ![w] = Raw(o.key, c.gz, c.lines)]
                   /\ pc' = [pc EXCEPT ![w] = "parse"]
                   /\ UNCHANGED err
              [] o.res = "ClientError" ->
                   /\ err' = [err EXCEPT ![w] = Str("S3Error", FetchPrefixLen + o.len)]
                   /\ pc' = [pc EXCEPT ![w] = "fail"]
                   /\ UNCHANGED raw_bytes
              [] o.res = "Exception" ->
                   /\ Raise(w, Str("FetchError", o.len))
                   /\ UNCHANGED raw_bytes
    /\ UNCHANGED <<jobs, curated, store, events, BATCH_SIZE, items, cur,
                   records, enriched, i, scanned, handed, owed>>

\* process_job: records = read_jsonl_bytes(raw_bytes, sk), the empty check
\* and the headlines / symbols comprehensions
Parse(w) ==
    /\ pc[w] = "parse"
    /\ LET recs == read_jsonl_bytes(raw_bytes[w], cur[w][2])
       IN IF GzipFails(raw_bytes[w], cur[w][2])
          THEN /\ Raise(w, Str("BadGzipFile", GzipErrLen))
               /\ UNCHANGED <<records, log>>
          ELSE IF recs = <<>>
          THEN /\ err' = [err EXCEPT ![w] = Str("NoValid", NoValidLen)]
               /\ pc' = [pc EXCEPT ![w] = "fail"]
               /\ log' = Tagged(w, {"empty"})
               /\ UNCHANGED records
          ELSE IF HasScalar(recs)
          THEN /\ Raise(w, Str("AttributeError", AttrErrLen))
               /\ UNCHANGED <<records, log>>
          ELSE /\ records' = [records EXCEPT ![w] = recs]
               /\ pc' = [pc EXCEPT ![w] = "classify"]
               /\ UNCHANGED <<err, log>>
    /\ fetched' = [fetched EXCEPT ![w] = NoFetch]
    /\ UNCHANGED <<jobs, curated, store, events, BATCH_SIZE, items, cur,
                   raw_bytes, enriched, i, scanned, handed, owed>>

\* a loop whose last iteration goes straight to the status update
Classify_SkipWrite(w) ==
    /\ pc[w] = "classify"
    /\ log' = Tagged(w, {"classified"})
    /\ \/ /\ enriched' = [enriched EXCEPT ![w] =
                             @ \o EnrichBatch(records[w], i[w], BATCH_SIZE)]
          /\ i' = [i EXCEPT ![w] = @ + BATCH_SIZE]
          /\ pc' = [pc EXCEPT ![w] = IF i[w] + BATCH_SIZE < Len(records[w])
                                     THEN "classify" ELSE "mark"]
          /\ UNCHANGED err
       \/ /\ \E n \in ErrLens : Raise(w, Str("ScoringError", n))
          /\ UNCHANGED <<enriched, i>>
    /\ UNCHANGED <<jobs, curated, store, events, BATCH_SIZE, items, cur,
                   raw_bytes, records, scanned, handed, owed, fetched>>

\* process_job: one iteration of for i in range(0, len(headlines), BATCH_SIZE)
Classify(w) ==
    /\ pc[w] = "classify"
    /\ log' = Tagged(w, {"classified"})
    /\ \/ /\ enriched' = [enriched EXCEPT ![w] =
                             @ \o EnrichBatch(records[w], i[w], BATCH_SIZE)]
          /\ i' = [i EXCEPT ![w] = @ + BATCH_SIZE]
          /\ pc' = [pc EXCEPT ![w] = IF i[w] + BATCH_SIZE < Len(records[w])
                                     THEN "classify" ELSE "write"]
          /\ UNCHANGED err
       \/ /\ \E n \in ErrLens : Raise(w, Str("ScoringError", n))
          /\ UNCHANGED <<enriched, i>>
    /\ UNCHANGED <<jobs, curated, store, events, BATCH_SIZE, items, cur,
                   raw_bytes, records, scanned, handed, owed, fetched>>

\* a write_curated whose put failure is swallowed
Write_Swallow(w) ==
    /\ pc[w] = "write"
    /\ \/ /\ curated' = put_item(curated, CuratedKey(cur[w][2]), enriched[w])
          /\ log' = Tagged(w, {"put"})
       \/ /\ log' = Tagged(w, {"putFail"})
          /\ UNCHANGED curated
    /\ pc' = [pc EXCEPT ![w] = "mark"]
    /\ UNCHANGED <<jobs, store, events, BATCH_SIZE, items, cur, raw_bytes,
                   records, enriched, i, err, scanned, handed, owed, fetched>>

\* process_job: out_key = write_curated(bucket, sk, enriched)
Write(w) ==
    /\ pc[w] = "write"
    /\ \/ /\ curated' = put_item(curated, CuratedKey(cur[w][2]), enriched[w])
          /\ pc' = [pc EXCEPT ![w] = "mark"]
          /\ log' = Tagged(w, {"put"})
          /\ UNCHANGED err
       \/ /\ \E n \in BotoLens : Raise(w, Str("PutError", n))
          /\ log' = Tagged(w, {"putFail"})
          /\ UNCHANGED curated
    /\ UNCHANGED <<jobs, store, events, BATCH_SIZE, items, cur, raw_bytes,
                   records, enriched, i, scanned, handed, owed, fetched>>

\* process_job: update_status(pk, sk, "DONE")
MarkDone(w) ==
    /\ pc[w] = "mark"
    /\ \/ /\ jobs' = update_status(jobs, cur[w], DONE, NoMsg)
          /\ log' = Tagged(w, {"setDONE"})
          /\ Return(w)
       \/ /\ \E n \in BotoLens : Raise(w, Str("StoreError", n))
          /\ log' = Tagged(w, {"doneFail"})
          /\ UNCHANGED <<jobs, cur, raw_bytes, records, enriched, i, fetched>>
    /\ UNCHANGED <<curated, store, events, BATCH_SIZE, items, scanned,
                   handed, owed>>

\* process_job: update_status(pk, sk, "FAILED", msg=msg); return
MarkFailed(w) ==
    /\ pc[w] = "fail"
    /\ \/ /\ jobs' = update_status(jobs, cur[w], FAILED, err[w])
          /\ log' = Tagged(w, {"setFAILED"})
          /\ Return(w)
       \/ /\ \E n \in BotoLens : Raise(w, Str("StoreError", n))
          /\ log' = Tagged(w, {"failedFail"})
          /\ UNCHANGED <<jobs, cur, raw_bytes, records, enriched, i, fetched>>
    /\ UNCHANGED <<curated, store, events, BATCH_SIZE, items, scanned,
                   handed, owed>>

\* a handler without the inner try: a failed update ends the for loop
Catch_NoInnerTry(w) ==
    /\ pc[w] = "catch"
    /\ \/ /\ jobs' = update_status(jobs, cur[w], FAILED, err[w])
          /\ log' = Tagged(w, {"setFAILED"})
          /\ Return(w)
       \/ /\ log' = Tagged(w, {"catchFail"})
          /\ pc' = [pc EXCEPT ![w] = "sleep"]
          /\ UNCHANGED <<jobs, cur, raw_bytes, records, enriched, i, err, fetched>>
    /\ UNCHANGED <<curated, store, events, BATCH_SIZE, items, scanned,
                   handed, owed>>

\* poll_once: except Exception as e: update_status(.., "FAILED", msg=str(e)),
\* a failure of which is passed over
Catch(w) ==
    /\ pc[w] = "catch"
    /\ \/ /\ jobs' = update_status(jobs, cur[w], FAILED, err[w])
          /\ log' = Tagged(w, {"setFAILED"})
       \/ /\ log' = Tagged(w, {"catchFail"})
          /\ UNCHANGED jobs
    /\ Return(w)
    /\ UNCHANGED <<curated, store, events, BATCH_SIZE, items, scanned,
                   handed, owed>>

\* main: time.sleep(POLL_SECONDS), then the next poll_once
Sleep(w) ==
    /\ pc[w] = "sleep"
    /\ pc' = [pc EXCEPT ![w] = "scan"]
    /\ UNCHANGED <<jobs, curated, store, events, BATCH_SIZE, items, cur,
                   raw_bytes, records, enriched, i, err, scanned, handed,
                   log, owed, fetched>>

WorkerStep(w) ==
    \/ ScanOk(w)
    \/ ScanFail(w)
    \/ NextJob(w)
    \/ Fetch(w)
    \/ Parse(w)
    \/ Classify(w)
    \/ Write(w)
    \/ MarkDone(w)
    \/ MarkFailed(w)
    \/ Catch(w)
    \/ Sleep(w)

Next ==
    \/ \E ts \in Timestamps, key \in EventKeys : Enqueue(ts, key)
    \/ \E w \in Workers : WorkerStep(w)

Spec == Init /\ [][Next]_vars

\* main never stops calling poll_once, and every external call returns
FairInit == InitWith({1}, "core", {DatedKey, FlatKey, PlainKey}, {1})
FairSpec == FairInit /\ [][Next]_vars /\ \A w \in Workers : WF_vars(WorkerStep(w))

\* one job, every raw content up to MaxLines lines, every batch size
PipeInit == InitWith({1}, "all", {DatedKey}, 1..MaxBatch)
PipeSpec == PipeInit /\ [][Next]_vars

\* one Dispatcher and the events of a dated and of an undated raw object
PairInit == InitWith({1}, "core", {DatedKey, BareGzKey}, {1})
PairSpec == PairInit /\ [][Next]_vars

\* two Dispatcher instances run against the same table and bucket
TwoInit == InitWith({1, 2}, "core", {DatedKey}, {1})
TwoSpec == TwoInit /\ [][Next]_vars

\* a status update of job id that succeeds
UpdateOk(w, id) ==
    /\ cur[w] = id
    /\ MarkDone(w) \/ MarkFailed(w) \/ Catch(w)
    /\ jobs' # jobs
\* the one running Dispatcher never stops, every external call returns,
\* scans do not fail forever and the status updates of a job do not fail
\* forever
LiveInit == InitWith({1}, "core", {DatedKey, BareGzKey, FlatKey}, {1})
LiveSpec ==
    /\ LiveInit /\ [][Next]_vars
    /\ WF_vars(WorkerStep(1))
    /\ SF_vars(ScanOk(1))
    /\ \A id \in JobIds : SF_vars(UpdateOk(1, id))

\* ------------------------------------------------------------------------
\* Properties
\* ------------------------------------------------------------------------
Terminal(id) == id \in DOMAIN jobs /\ jobs[id].status \in {DONE, FAILED}
\* process_job is running on cur[w]
InJob(w) == pc[w] \in {"fetch", "parse", "classify", "write", "mark", "fail", "catch"}
Did(w, id, tag) == <<id, tag>> \in log[w]
\* the step is one of worker w: each of its actions changes pc[w] or i[w],
\* and the enqueue Lambda changes neither
Moves(w) == pc'[w] # pc[w] \/ i'[w] # i[w]

\* C1: with one Dispatcher, no step of a poll cycle changes the status of a
\* job that is DONE or FAILED, and process_job only ever runs on a job that
\* the cycle's scan returned and whose stored status is PENDING_SENTIMENT.
C1_TerminalIsFinal ==
    [][\A w \in Workers : Moves(w) =>
          /\ \A id \in DOMAIN jobs :
                Terminal(id) => jobs'[id].status = jobs[id].status
          /\ InJob(w)' => /\ cur'[w] \in scanned'[w]
                          /\ jobs'[cur'[w]].status = PENDING
          /\ \A k \in 1..Len(items'[w]) : jobs'[items'[w][k]].status = PENDING]_vars

\* a later cycle is processing another job while a DONE job is left alone
C1_Witness ==
    \E id \in DOMAIN jobs :
        /\ jobs[id].status = DONE
        /\ pc[1] = "parse"
        /\ cur[1] # id
        /\ id \notin scanned[1]

\* C2: a failed scan changes no job and writes no curated object, and the
\* next successful scan returns every job that was PENDING when it failed.
C2_FailedScanLosesNothing ==
    [][\A w \in Workers :
          /\ ScanFail(w) => jobs' = jobs /\ curated' = curated
          /\ ScanOk(w) => owed[w] \subseteq scanned'[w]]_vars

\* C3: a job for which an update_status call failed in a poll cycle has its
\* status left unchanged by that cycle and stays PENDING.
UpdateFailed(w, id) ==
    Did(w, id, "doneFail") \/ Did(w, id, "failedFail") \/ Did(w, id, "catchFail")
C3_FailedUpdateLeavesPending ==
    \A w \in Workers : \A id \in DOMAIN jobs :
        UpdateFailed(w, id) =>
            /\ ~Did(w, id, "setDONE")
            /\ ~Did(w, id, "setFAILED")
            /\ jobs[id].status = PENDING

\* C4: once the curated put of a job failed in a poll cycle, no step of
\* that cycle sets the job DONE: its status stays as it is or becomes FAILED.
C4_FailedWriteNeverDone ==
    [][\A w \in Workers : Moves(w) =>
          \A id \in DOMAIN jobs : Did(w, id, "putFail") =>
              /\ jobs'[id].status \in {jobs[id].status, FAILED}
              /\ ~Did(w, id, "setDONE")']_vars

\* the put failed and the cycle marked the job FAILED
C4_Witness ==
    \E id \in DOMAIN jobs :
        /\ Did(1, id, "putFail")
        /\ Did(1, id, "classified")
        /\ jobs[id].status = FAILED
        /\ jobs[id].error_message.kind = "PutError"

\* C5: a poll cycle hands every job its scan returned to process_job,
\* however the earlier jobs of the cycle failed, and while process_job runs
\* on one job no other job of the table changes.
C5_EveryScannedJobHandled ==
    [][\A w \in Workers : Moves(w) =>
          /\ handed'[w] \subseteq scanned'[w]
          /\ pc'[w] = "sleep" /\ pc[w] # "scan" => handed'[w] = scanned'[w]
          /\ \A id \in DOMAIN jobs : id # cur[w] => jobs'[id] = jobs[id]]_vars

\* a cycle of two jobs ended: handling the first failed in every way up to
\* the handler's own update, the second was still processed to DONE
C5_Witness ==
    \E a, b \in DOMAIN jobs :
        /\ pc[1] = "sleep"
        /\ scanned[1] = {a, b}
        /\ a # b
        /\ Did(1, a, "doneFail")
        /\ Did(1, a, "catchFail")
        /\ Did(1, b, "setDONE")

\* C7: a successful scan returns every job that is PENDING at that time.
C7_ScanReturnsAllPending ==
    [][\A w \in Workers : ScanOk(w) => scanned'[w] = PendingIds(jobs)]_vars

\* C9: a job whose raw object yields no parseable line is not classified,
\* gets no curated object written, and when FAILED carries the
\* "No valid ..." message.
C9_EmptyInputFailsNoValid ==
    \A w \in Workers : \A id \in DOMAIN jobs :
        Did(w, id, "empty") =>
            /\ ~Did(w, id, "classified")
            /\ ~Did(w, id, "put")
            /\ jobs[id].status # DONE
            /\ jobs[id].status = FAILED => jobs[id].error_message.kind = "NoValid"

\* C10: every FAILED job has an error_message of 1 to 500 characters.
C10_FailedHasMessage ==
    \A id \in DOMAIN jobs :
        jobs[id].status = FAILED =>
            /\ jobs[id].error_message.kind # "None"
            /\ jobs[id].error_message.len >= 1
            /\ jobs[id].error_message.len <= MsgLimit

\* C6: whatever fails, poll_once returns to main and another scan is issued:
\* every running Dispatcher is at its scan infinitely often.
C6_LoopNeverEnds ==
    \A w \in Workers : pc[w] # "off" => []<>(pc[w] = "scan")

\* back at the scan after a cycle in which a job failed
C6_Witness ==
    /\ pc[1] = "scan"
    /\ \E id \in DOMAIN jobs : Did(1, id, "catchFail") /\ jobs[id].status = PENDING

\* C8: when a job is set DONE, the curated object at its key holds one
\* enriched record per parseable line of the fetched raw object, in order,
\* with the line's symbol and its headline if non-empty, else its text.
TextOf(l) == IF l.headline \notin {"absent", ""} THEN l.headline
             ELSE IF l.text = "absent" THEN "" ELSE l.text
Expected(lines) ==
    LET ps == SelectSeq(lines, LAMBDA l : l.t \notin {"blank", "bad"})
    IN [k \in 1..Len(ps) |->
           [symbol |-> IF ps[k].symbol = "absent" THEN "None" ELSE ps[k].symbol,
            headline |-> TextOf(ps[k]),
            sentiment_label |-> Score(TextOf(ps[k]))]]
C8_CuratedMirrorsParsedLines ==
    [][\A w \in Workers :
          (Moves(w) /\ InJob(w) /\ jobs[cur[w]].status # DONE
              /\ jobs'[cur[w]].status = DONE) =>
              /\ CuratedKey(cur[w][2]) \in DOMAIN curated'
              /\ curated'[CuratedKey(cur[w][2])] = Expected(raw_bytes[w].lines)]_vars

\* a DONE job of three records classified in batches of two
C8_Witness ==
    \E id \in DOMAIN jobs :
        /\ jobs[id].status = DONE
        /\ BATCH_SIZE = 2
        /\ CuratedKey(id[2]) \in DOMAIN curated
        /\ Len(curated[CuratedKey(id[2])]) = 3
        /\ curated[CuratedKey(id[2])][3].symbol = "None"

\* the steps of a worker are exactly the steps that change its pc or i
MovesIsWorkerStep == [][\A w \in Workers : Moves(w) <=> WorkerStep(w)]_vars

\* C11: a step of a Dispatcher neither adds nor removes a job record; the
\* only record it may change is the one of the job it is processing, whose
\* key (pk, sk) is the one addressed, and of that record bucket and
\* created_ts stay as they were: only status and error_message change.
C11_UpdateTouchesOnlyStatusAndMessage ==
    [][\A w \in Workers : Moves(w) =>
          /\ DOMAIN jobs' = DOMAIN jobs
          /\ \A id \in DOMAIN jobs :
                /\ jobs'[id] # jobs[id] => id = cur[w]
                /\ jobs'[id].bucket = jobs[id].bucket
                /\ jobs'[id].created_ts = jobs[id].created_ts]_vars
\* one job has been set FAILED with a message and kept its bucket and
\* created_ts, next to a second job that is still as it was enqueued
C11_Witness ==
    \E id \in DOMAIN jobs : \E other \in DOMAIN jobs \ {id} :
        /\ jobs[id].status = FAILED
        /\ Truthy(jobs[id].error_message)
        /\ jobs[id] = [Item(PENDING, BUCKET, jobs[id].created_ts, NoMsg)
                          EXCEPT !.status = FAILED,
                                 !.error_message = jobs[id].error_message]
        /\ jobs[other] = Item(PENDING, BUCKET, jobs[other].created_ts, NoMsg)
        /\ \E w \in Workers : Did(w, id, "setFAILED")

\* C12: there is no claim step. Until its status transition a Dispatcher
\* writes nothing to the job table, so a job it is processing stays PENDING,
\* and a scan by the other instance returns a PENDING job of the first page
\* whether or not an instance is already processing it; both instances then
\* run the whole pipeline on the same job.
C12_NoClaimStep ==
    [][\A w \in Workers : Moves(w) =>
          /\ pc[w] \notin {"mark", "fail", "catch"} => jobs' = jobs
          /\ pc[w] = "scan" /\ pc'[w] = "next" =>
                \A v \in Workers \ {w} :
                    (/\ InJob(v)
                     /\ cur[v] \in PendingIds(jobs)
                     /\ Cardinality(DOMAIN jobs) <= ScanPageLimit)
                        => cur[v] \in scanned'[w]]_vars
\* both instances hold the same job, each has classified it and put its
\* curated object, and each is about to set it DONE
C12_Witness ==
    /\ cur[1] = cur[2]
    /\ pc[1] = "mark" /\ pc[2] = "mark"
    /\ jobs[cur[1]].status = PENDING
    /\ \A w \in Workers :
          /\ cur[1] \in scanned[w]
          /\ Did(w, cur[1], "classified")
          /\ Did(w, cur[1], "put")

\* the steps of process_job in the order of the pipeline
StageOf(p) ==
    CASE p = "fetch" -> 1 [] p = "parse" -> 2 [] p = "classify" -> 3
      [] p = "write" -> 4 [] p = "mark" -> 5 [] OTHER -> 0
\* the transition attempt for the job has completed in this cycle
Attempted(w, id) ==
    Did(w, id, "setDONE") \/ Did(w, id, "setFAILED") \/ Did(w, id, "catchFail")

\* C13: within a job the steps run in the order fetch, parse, classify,
\* curated write, status transition, none skipped and none repeated out of
\* order; a job is started only when the transition attempt of every job
\* handed out before it in the cycle has completed; DONE is written only
\* for the job in hand after it was classified and its curated object put
\* in the same cycle; and every DONE job has a curated object at the key
\* write_curated derives from its sk.
C13_StepsInOrder ==
    [][/\ \A w \in Workers : Moves(w) =>
            /\ StageOf(pc[w]) > 0 /\ StageOf(pc'[w]) > 0 =>
                  /\ cur'[w] = cur[w]
                  /\ StageOf(pc'[w]) \in {StageOf(pc[w]), StageOf(pc[w]) + 1}
                  /\ StageOf(pc'[w]) = StageOf(pc[w]) => pc[w] = "classify"
            /\ pc'[w] = "fetch" =>
                  /\ pc[w] = "next"
                  /\ \A id \in handed[w] : Attempted(w, id)
            /\ pc[w] = "next" => cur[w] = NoJob
            /\ \A id \in DOMAIN jobs :
                  jobs'[id].status = DONE /\ jobs[id].status # DONE =>
                      /\ id = cur[w] /\ pc[w] = "mark"
                      /\ Did(w, id, "classified")
                      /\ Did(w, id, "put")
       /\ \A id \in DOMAIN jobs' :
            jobs'[id].status = DONE => CuratedKey(id[2]) \in DOMAIN curated'
      ]_vars
\* a job is DONE with its curated object in place, written and set DONE in
\* this cycle, and the loop has gone on to the next job of the scan
C13_Witness ==
    \E w \in Workers : \E id \in DOMAIN jobs :
        /\ jobs[id].status = DONE
        /\ Did(w, id, "put") /\ Did(w, id, "setDONE")
        /\ CuratedKey(id[2]) \in DOMAIN curated
        /\ InJob(w) /\ cur[w] # id /\ id \in handed[w]

\* C14: when main keeps running, every external call returns and scans and
\* status updates do not fail forever, every job that is PENDING is
\* eventually DONE or FAILED.
C14_PendingEventuallyTerminal ==
    \A id \in JobIds :
        (id \in DOMAIN jobs /\ jobs[id].status = PENDING) ~> Terminal(id)

\* the listing smart_get_object made has no key matching the job's file name
NotFound(w) ==
    /\ fetched[w].listed
    /\ {k \in fetched[w].candidates : Matches(k, Last(cur[w][2]))} = {}

\* C15: smart_get_object lists only after the direct get failed with
\* NoSuchKey; after any other error of the direct get it has not listed and
\* the error is on its way to a FAILED update. When the listing has no
\* match, no bytes are returned and the ClientError reaches process_job's
\* except branch; the job is never classified, written or set DONE in that
\* cycle, and the status the cycle writes for it is FAILED with a non-empty
\* error message.
C15_FallbackOnlyOnNoSuchKey ==
    \A w \in Workers :
        /\ fetched[w].listed => fetched[w].code = "NoSuchKey"
        /\ fetched[w].code \in {"AccessDenied", "Exception"} =>
              /\ ~fetched[w].listed /\ fetched[w].candidates = {}
              /\ raw_bytes[w] = NoRaw
              /\ pc[w] \in {"fail", "catch"}
              /\ fetched[w].code = "AccessDenied" /\ ~Did(w, cur[w], "failedFail")
                    => pc[w] = "fail" /\ err[w].kind = "S3Error"
        /\ NotFound(w) =>
              /\ raw_bytes[w] = NoRaw
              /\ pc[w] \in {"fail", "catch"}
              /\ ~Did(w, cur[w], "failedFail")
                    => pc[w] = "fail" /\ err[w].kind = "S3Error"
              /\ Did(w, cur[w], "notFound")
        /\ \A id \in DOMAIN jobs : Did(w, id, "notFound") =>
              /\ ~Did(w, id, "classified")
              /\ ~Did(w, id, "put")
              /\ ~Did(w, id, "setDONE")
              /\ jobs[id].status # DONE
              /\ cur[w] # id => Did(w, id, "setFAILED") \/ Did(w, id, "catchFail")
              /\ Did(w, id, "setFAILED") /\ jobs[id].status = FAILED =>
                    /\ Truthy(jobs[id].error_message)
                    /\ jobs[id].error_message.kind \in {"S3Error", "StoreError"}
\* the key was missing, the listing had no key with the file name,
\* and the job has been set FAILED with the S3 error as its message
C15_Witness ==
    \E w \in Workers : \E id \in DOMAIN jobs :
        /\ Did(w, id, "notFound")
        /\ Did(w, id, "setFAILED")
        /\ cur[w] # id
        /\ jobs[id].status = FAILED
        /\ jobs[id].error_message.kind = "S3Error"

\* C16: when smart_get_object returns an object after listing, its key is
\* one of the listed keys whose last path segment equals the last segment
\* of the requested key, and it is the greatest of those in string order.
C16_FallbackPicksGreatestSameName ==
    \A w \in Workers :
        fetched[w].listed /\ pc[w] = "parse" =>
            LET same == {k \in fetched[w].candidates :
                            Last(k) = Last(cur[w][2])}
            IN /\ raw_bytes[w].key \in same
               /\ \A k \in same : KeyRank(k) <= KeyRank(raw_bytes[w].key)

\* a raw key of the form raw/text/YYYY/MM/DD/<name>.jsonl.gz
IsDatedRawKey(key) ==
    /\ Len(key) = 6
    /\ SubSeq(key, 1, 2) = RAW_PREFIX
    /\ Len(Last(key)) >= 3
    /\ SubSeq(Last(key), Len(Last(key)) - 1, Len(Last(key))) = <<".jsonl", ".gz">>
\* the curated key the two cases of the claim give for a raw key
ClaimedCuratedKey(key) ==
    LET file == Last(key)
        stem == IF Last(file) = ".gz" THEN SubSeq(file, 1, Len(file) - 1)
                ELSE file
    IN IF IsDatedRawKey(key)
       THEN <<<<"curated">>, <<"sentiment">>, key[3], key[4], key[5],
              SubSeq(file, 1, Len(file) - 2) \o <<".jsonl">> >>
       ELSE <<<<"curated">>, <<"sentiment">>,
              IF Last(stem) = ".jsonl" THEN stem ELSE stem \o <<".jsonl">> >>

\* C17: the put of write_curated for a job whose sk has the form
\* raw/text/YYYY/MM/DD/<name>.jsonl.gz goes to exactly
\* curated/sentiment/YYYY/MM/DD/<name>.jsonl, the put for an sk of fewer
\* than six segments goes to curated/sentiment/<file> with .gz stripped and
\* .jsonl ensured, nothing else in the bucket changes, and every curated key
\* begins with curated/sentiment/.
C17_CuratedKeyMirrorsRawKey ==
    [][/\ \A w \in Workers : Moves(w) /\ curated' # curated =>
            LET sk == cur[w][2]
            IN IsDatedRawKey(sk) \/ Len(sk) < 6 =>
                 /\ DOMAIN curated' = DOMAIN curated \cup {ClaimedCuratedKey(sk)}
                 /\ \A k \in DOMAIN curated :
                       k # ClaimedCuratedKey(sk) => curated'[k] = curated[k]
                 /\ curated'[ClaimedCuratedKey(sk)] = enriched[w]
       /\ \A k \in DOMAIN curated' :
            Len(k) >= 3 /\ SubSeq(k, 1, 2) = CURATED_PREFIX
      ]_vars
\* the bucket holds the curated object of a dated job under its date
\* folders and the one of an undated job directly under the prefix
C17_Witness ==
    /\ \E w \in Workers : \E ts \in Timestamps :
          /\ Did(w, <<PkOf(ts), DatedKey>>, "put")
          /\ Did(w, <<PkOf(ts), BareGzKey>>, "put")
    /\ <<<<"curated">>, <<"sentiment">>, <<"2025">>, <<"11">>, <<"10">>,
          <<"foo", ".jsonl">> >> \in DOMAIN curated
    /\ <<<<"curated">>, <<"sentiment">>, <<"foo", ".jsonl">> >> \in DOMAIN curated

\* C18: two jobs with different raw keys never have their curated objects
\* put at the same key: no two jobs whose sk differ and whose curated
\* objects were put in a cycle share the key write_curated derives.
C18_DistinctRawKeysDistinctCuratedKeys ==
    \A w \in Workers : \A a \in DOMAIN jobs : \A b \in DOMAIN jobs :
        (/\ a[2] # b[2]
         /\ Accepts(a[2]) /\ Accepts(b[2])
         /\ Did(w, a, "put") /\ Did(w, b, "put"))
            => CuratedKey(a[2]) # CuratedKey(b[2])

\* C19 as stated: with two Dispatchers a terminal status is stable, no step
\* of either instance changes the status of a job that is DONE or FAILED.
C19_TerminalIsStable ==
    [][\A w \in Workers : Moves(w) =>
          \A id \in DOMAIN jobs :
              Terminal(id) => jobs'[id].status = jobs[id].status]_vars

\* C19: with two Dispatchers a terminal status can be overwritten, but only
\* by an instance that is processing the job, having obtained it from its
\* own scan of the current cycle, a scan that returns only jobs whose
\* status is PENDING at that moment; an instance never touches a terminal
\* job that its scan did not return.
C19_OverwriteOnlyByEarlierScan ==
    [][\A w \in Workers : Moves(w) =>
          /\ pc[w] = "scan" /\ pc'[w] = "next" => scanned'[w] \subseteq PendingIds(jobs)
          /\ \A id \in DOMAIN jobs :
                Terminal(id) /\ jobs'[id] # jobs[id] =>
                    /\ id = cur[w]
                    /\ id \in scanned[w] /\ id \in handed[w]
                    /\ pc[w] \in {"mark", "fail", "catch"}
                    /\ jobs'[id].status \in {DONE, FAILED}]_vars
\* one instance set the job DONE, then the other, which had scanned it
\* while it was PENDING, set it FAILED
C19_Witness ==
    \E id \in DOMAIN jobs :
        /\ jobs[id].status = FAILED
        /\ Did(1, id, "setDONE") /\ Did(1, id, "put")
        /\ Did(2, id, "setFAILED")
        /\ CuratedKey(id[2]) \in DOMAIN curated

====
